---- MODULE Spec2Model ----
(***************************************************************************)
(* Model of HerschelBulkley2DLaw                                           *)
(* (applications/PfemFluidDynamicsApplication/custom_constitutive/         *)
(*  fluid_laws/herschel_bulkley_2D_law.cpp).                               *)
(*                                                                         *)
(* Numbers.  The law computes on C++ doubles.  The model computes on exact *)
(* rationals: a value is a record [s, n, d] standing for s * n / d, where  *)
(* s is the sign and n, d are naturals of arbitrary size written as        *)
(* little-endian sequences of base-10000 digits (TLC's own integers are    *)
(* too narrow for (1e-8)^2).  +, -, *, / are therefore exact; rounding and *)
(* overflow of the double format are not modelled.  A division by zero     *)
(* yields the value NotFinite, which stands for the IEEE results Inf and   *)
(* NaN and is propagated by every operation.                               *)
(*                                                                         *)
(* std::sqrt is the exact root, on inputs whose root is rational.          *)
(* std::pow is exact, on integral exponents.  std::exp is irrational at    *)
(* every rational argument but 0, so the model only knows an enclosure     *)
(* lo <= exp(t) <= hi with rational ends; the variable libm fixes, for a   *)
(* whole behaviour, which end the library returns.  The viscosity and the  *)
(* stress are affine in the value of exp, so a linear (in)equality that    *)
(* holds at both ends holds at the true value.                             *)
(***************************************************************************)
EXTENDS Integers, Sequences, FiniteSets, TLC

(***************************************************************************)
(* Naturals of arbitrary size: little-endian digits in base Base, no       *)
(* leading zero digit, zero is the empty sequence.                         *)
(***************************************************************************)
Base == 10 ^ 4

RECURSIVE Strip(_)
Strip(a) ==
    IF a = <<>> THEN <<>>
    ELSE IF a[Len(a)] = 0 THEN Strip(SubSeq(a, 1, Len(a) - 1))
    ELSE a

NatOf(k) ==
    IF k = 0 THEN <<>>
    ELSE IF k < Base THEN <<k>>
    ELSE IF k < Base * Base THEN <<k % Base, k \div Base>>
    ELSE <<k % Base, (k \div Base) % Base, k \div (Base * Base)>>

RECURSIVE NatAddC(_, _, _)
NatAddC(a, b, c) ==
    IF a = <<>> /\ b = <<>> THEN (IF c = 0 THEN <<>> ELSE <<c>>)
    ELSE LET x == IF a = <<>> THEN 0 ELSE Head(a)
             y == IF b = <<>> THEN 0 ELSE Head(b)
             s == x + y + c
         IN  <<s % Base>> \o NatAddC(IF a = <<>> THEN <<>> ELSE Tail(a),
                                     IF b = <<>> THEN <<>> ELSE Tail(b),
                                     s \div Base)

NatAdd(a, b) ==
    IF Len(a) = 1 /\ Len(b) = 1 THEN NatOf(a[1] + b[1]) ELSE NatAddC(a, b, 0)

RECURSIVE NatCmpFrom(_, _, _)
NatCmpFrom(a, b, i) ==
    IF i = 0 THEN 0
    ELSE IF a[i] < b[i] THEN -1
    ELSE IF a[i] > b[i] THEN 1
    ELSE NatCmpFrom(a, b, i - 1)

\* -1, 0, 1 as a < b, a = b, a > b
NatCmp(a, b) ==
    IF a = b THEN 0
    ELSE IF Len(a) < Len(b) THEN -1
    ELSE IF Len(a) > Len(b) THEN 1
    ELSE NatCmpFrom(a, b, Len(a))

RECURSIVE NatSubB(_, _, _)
NatSubB(a, b, c) ==
    IF a = <<>> THEN <<>>
    ELSE LET y == IF b = <<>> THEN 0 ELSE Head(b)
             s == Head(a) - y - c
         IN  <<IF s < 0 THEN s + Base ELSE s>>
             \o NatSubB(Tail(a), IF b = <<>> THEN <<>> ELSE Tail(b),
                        IF s < 0 THEN 1 ELSE 0)

\* a - b for a >= b
NatSub(a, b) == Strip(NatSubB(a, b, 0))

RECURSIVE NatMulDigit(_, _, _)
NatMulDigit(a, k, c) ==
    IF a = <<>> THEN (IF c = 0 THEN <<>> ELSE <<c>>)
    ELSE LET s == Head(a) * k + c
         IN  <<s % Base>> \o NatMulDigit(Tail(a), k, s \div Base)

RECURSIVE NatMul(_, _)
NatMul(a, b) ==
    IF a = <<>> \/ b = <<>> THEN <<>>
    ELSE IF b = <<1>> THEN a
    ELSE IF a = <<1>> THEN b
    ELSE IF Len(a) = 1 /\ Len(b) = 1 THEN NatOf(a[1] * b[1])
    ELSE IF Len(b) = 1 THEN NatMulDigit(a, b[1], 0)
    ELSE IF Len(a) = 1 THEN NatMulDigit(b, a[1], 0)
    ELSE LET rest == NatMul(a, Tail(b))
         IN  NatAdd(NatMulDigit(a, Head(b), 0),
                    IF rest = <<>> THEN <<>> ELSE <<0>> \o rest)

(***************************************************************************)
(* Exact rationals s * n / d, and the not-finite value (d = 0).            *)
(***************************************************************************)
NotFinite == [s |-> 0, n |-> <<>>, d |-> <<>>]

IsFinite(x) == x.d # <<>>

\* the rational p / q of two machine integers, q > 0
Rat(p, q) ==
    [s |-> IF p < 0 THEN -1 ELSE IF p = 0 THEN 0 ELSE 1,
     n |-> NatOf(IF p < 0 THEN -p ELSE p),
     d |-> NatOf(q)]

Zero == Rat(0, 1)
One == Rat(1, 1)

Neg(x) == [x EXCEPT !.s = -x.s]

Mul(x, y) ==
    IF ~IsFinite(x) \/ ~IsFinite(y) THEN NotFinite
    ELSE IF x.s = 0 \/ y.s = 0 THEN Zero
    ELSE [s |-> x.s * y.s, n |-> NatMul(x.n, y.n), d |-> NatMul(x.d, y.d)]

\* x / y; a zero divisor gives Inf or NaN
Div(x, y) ==
    IF ~IsFinite(x) \/ ~IsFinite(y) \/ y.s = 0 THEN NotFinite
    ELSE IF x.s = 0 THEN Zero
    ELSE [s |-> x.s * y.s, n |-> NatMul(x.n, y.d), d |-> NatMul(x.d, y.n)]

Add(x, y) ==
    IF ~IsFinite(x) \/ ~IsFinite(y) THEN NotFinite
    ELSE IF x.s = 0 THEN y
    ELSE IF y.s = 0 THEN x
    ELSE LET same == x.d = y.d
             a == IF same THEN x.n ELSE NatMul(x.n, y.d)
             b == IF same THEN y.n ELSE NatMul(y.n, x.d)
             d == IF same THEN x.d ELSE NatMul(x.d, y.d)
             c == NatCmp(a, b)
         IN  IF x.s = y.s THEN [s |-> x.s, n |-> NatAdd(a, b), d |-> d]
             ELSE IF c = 0 THEN Zero
             ELSE IF c > 0 THEN [s |-> x.s, n |-> NatSub(a, b), d |-> d]
             ELSE [s |-> y.s, n |-> NatSub(b, a), d |-> d]

Sub(x, y) == Add(x, Neg(y))

\* the sign of x - y; comparisons with Inf or NaN are not made by the model
Cmp(x, y) ==
    IF x.s # y.s THEN (IF x.s < y.s THEN -1 ELSE 1)
    ELSE IF x.s = 0 THEN 0
    ELSE x.s * NatCmp(NatMul(x.n, y.d), NatMul(y.n, x.d))

\* the C++ comparisons: false whenever an operand is not finite
Lt(x, y) == IsFinite(x) /\ IsFinite(y) /\ Cmp(x, y) < 0
Le(x, y) == IsFinite(x) /\ IsFinite(y) /\ Cmp(x, y) <= 0
Eq(x, y) == IsFinite(x) /\ IsFinite(y) /\ Cmp(x, y) = 0

Abs(x) == [x EXCEPT !.s = IF x.s = 0 THEN 0 ELSE 1]

(***************************************************************************)
(* Bounds of the model.                                                    *)
(***************************************************************************)
\* strain components are k/2 * scale for k in -MaxStrain .. MaxStrain
MaxStrain == 2
\* FLOW_INDEX ranges over 0 .. MaxFlowIndex
MaxFlowIndex == 2
\* calls of the law in one behaviour
MaxCalls == 2
\* integration points whose response calls run concurrently
NumPoints == 2

Two == Rat(2, 1)
Three == Rat(3, 1)
Four == Rat(4, 1)
Half == Rat(1, 2)

\* const double tolerance = 1e-8;
tolerance == Rat(1, 10 ^ 8)

(***************************************************************************)
(* Inputs of the calls.                                                    *)
(***************************************************************************)
\* a strain rate k/2 of order 1, or k/2 * tolerance/2 of the order of the
\* tolerance
Rate(k, small) ==
    IF k = 0 THEN Zero
    ELSE IF small THEN Rat(k, 4 * 10 ^ 8) ELSE Rat(k, 2)

\* the equivalent strain rates the inputs can have
RateGrid == {Rate(k, small) : k \in 1 .. (2 * MaxStrain), small \in BOOLEAN}

\* the directions of the strain vectors: equal biaxial stretching
\* (trace # 0) for rates of the order of the tolerance; shear, and pure
\* shear in the axes (trace = 0), for rates of order 1
Directions(small) ==
    IF small THEN {<<1, 1, 0>>}
    ELSE {<<0, 0, 1>>, <<1, -1, 0>>}

\* the Voigt strain vectors <<e_xx, e_yy, e_xy>> of the calls; the
\* equivalent strain rate of k * dir * scale / 2 is k * scale
StrainVectors ==
    UNION {{<<Rate(k * dir[1], small), Rate(k * dir[2], small),
              Rate(k * dir[3], small)>> : dir \in Directions(small)} :
           k \in 0 .. MaxStrain, small \in BOOLEAN}

FlagSets == {{}, {"COMPUTE_CONSTITUTIVE_TENSOR"}}

Variables == {"DYNAMIC_VISCOSITY", "YIELD_SHEAR", "FLOW_INDEX",
              "ADAPTIVE_EXPONENT", "BULK_MODULUS"}

Props(dv, ys, fi, ae, bm) ==
    [DYNAMIC_VISCOSITY |-> Rat(dv, 1), YIELD_SHEAR |-> Rat(ys, 1),
     FLOW_INDEX |-> Rat(fi, 1), ADAPTIVE_EXPONENT |-> Rat(ae, 1),
     BULK_MODULUS |-> Rat(bm, 1)]

\* material definitions that pass Check
ValidProperties ==
    {Props(dv, ya[1], fi, ya[2], 1) :
        dv \in {0, 5}, fi \in 0 .. MaxFlowIndex,
        ya \in {<<0, 2>>, <<10, 0>>, <<10, 2>>}}

\* material definitions with one, two or five negative parameters
InvalidProperties ==
    {Props(-1, 10, 1, 2, 1), Props(5, -1, 1, 2, 1), Props(5, 10, -1, 2, 1),
     Props(5, 10, 1, -1, 1), Props(5, 10, 1, 2, -1), Props(5, -1, 1, -1, 1),
     Props(-1, -1, -1, -1, -1)}

\* every sign pattern of the five validated parameters
SignedProperties ==
    {Props(dv, ys, fi, ae, bm) :
        dv \in {-1, 0, 5}, ys \in {-1, 0, 10}, fi \in {-1, 0, 1},
        ae \in {-1, 0, 2}, bm \in {-1, 0, 1}}

(***************************************************************************)
(* State.                                                                  *)
(***************************************************************************)
VARIABLES
    libm,                         \* which end of its enclosure std::exp returns
    properties,                   \* rValues.GetMaterialProperties()
    strain_vector,                \* rValues.GetStrainVector()
    options,                      \* rValues.GetOptions()
    stress_vector,                \* rValues.GetStressVector()
    constitutive_matrix,          \* rValues.GetConstitutiveMatrix()
    equivalent_strain_rate,       \* the local of the last response call
    effective_dynamic_viscosity,  \* the local of the last response call
    divisors,                     \* divisors of the divisions the last response call executed
    pow_bases,                    \* bases of the std::pow calls it executed
    returned,                     \* what the last call returned: {0} or nothing
    thrown,                       \* the violations the last call reported by throwing
    last_call,                    \* "none", "response" or "check"
    calls,                        \* the number of calls made
    pc,                           \* per integration point: where its response call stands
    point_values,                 \* per integration point: its own rValues
    local_viscosity,              \* effective_dynamic_viscosity of the calls in progress, by storage slot
    point_calls                   \* per integration point: the calls it entered

vars == <<libm, properties, strain_vector, options, stress_vector,
          constitutive_matrix, equivalent_strain_rate,
          effective_dynamic_viscosity, divisors, pow_bases, returned,
          thrown, last_call, calls, pc, point_values, local_viscosity,
          point_calls>>

\* the state of the calls made one after the other
seq_vars == <<strain_vector, options, stress_vector, constitutive_matrix,
              equivalent_strain_rate, effective_dynamic_viscosity, divisors,
              pow_bases, returned, thrown, last_call, calls>>

\* the state of the concurrent calls
conc_vars == <<pc, point_values, local_viscosity, point_calls>>

(***************************************************************************)
(* <cmath>                                                                 *)
(***************************************************************************)
\* std::sqrt, exact
Sqrt(q) ==
    IF ~IsFinite(q) \/ q.s < 0 THEN NotFinite
    ELSE IF q.s = 0 THEN Zero
    ELSE CHOOSE r \in RateGrid : Eq(Mul(r, r), q)

RECURSIVE ExpLo(_)
\* a lower bound of exp(t): 1 + t for |t| < 1, else the square of the bound at t / 2
ExpLo(t) ==
    IF t.s = 0 THEN One
    ELSE IF Lt(Abs(t), One) THEN Add(One, t)
    ELSE LET h == ExpLo(Mul(t, Half)) IN Mul(h, h)

RECURSIVE ExpHi(_)
\* an upper bound of exp(t): 1 / (1 - t) for |t| < 1, else the square of the bound at t / 2
ExpHi(t) ==
    IF t.s = 0 THEN One
    ELSE IF Lt(Abs(t), One) THEN Div(One, Sub(One, t))
    ELSE LET h == ExpHi(Mul(t, Half)) IN Mul(h, h)

\* std::exp
Exp(t) ==
    IF ~IsFinite(t) THEN NotFinite
    ELSE IF libm = "lo" THEN ExpLo(t) ELSE ExpHi(t)

\* the machine integer an integral rational stands for
IntOf(e) == e.s * (IF e.n = <<>> THEN 0 ELSE e.n[1])

RECURSIVE PowNat(_, _)
PowNat(b, k) == IF k = 0 THEN One ELSE Mul(b, PowNat(b, k - 1))

\* std::pow on an integral exponent; pow(0, negative) is Inf
Pow(b, e) ==
    LET k == IntOf(e)
    IN  IF k >= 0 THEN PowNat(b, k) ELSE Div(One, PowNat(b, -k))

(***************************************************************************)
(* The statements of HerschelBulkley2DLaw::Check                           *)
(***************************************************************************)
\* a zero parameter taken for a violation
IsNotPositive(x) == Le(x, Zero)

\* rMaterialProperties[...] < 0.0
IsNegative(x) == Lt(x, Zero)

\* the order of the five KRATOS_ERROR_IF statements
CheckOrder == <<"DYNAMIC_VISCOSITY", "YIELD_SHEAR", "FLOW_INDEX",
                "ADAPTIVE_EXPONENT", "BULK_MODULUS">>

\* the message of one KRATOS_ERROR_IF: the name of the variable and its value
Violation(p, v) == [name |-> v, value |-> p[v]]

RECURSIVE FirstViolation(_, _)
\* KRATOS_ERROR_IF throws: the first failing statement ends the call
FirstViolation(p, i) ==
    IF i > Len(CheckOrder) THEN {}
    ELSE IF IsNegative(p[CheckOrder[i]]) THEN {Violation(p, CheckOrder[i])}
    ELSE FirstViolation(p, i + 1)

\* every failing statement reported, none ending the call
AllViolations(p) ==
    {Violation(p, CheckOrder[i]) :
        i \in {j \in 1 .. Len(CheckOrder) : IsNegative(p[CheckOrder[j]])}}

\* the violations one call of Check reports
CheckViolations(p) == FirstViolation(p, 1)

(***************************************************************************)
(* HerschelBulkley2DLaw::CalculateMaterialResponseCauchy                   *)
(***************************************************************************)
\* sqrt(2 e_xx^2 + 2 e_yy^2 + 4 e_xy^2)
EquivalentStrainRate(e) ==
    Sqrt(Add(Add(Mul(Mul(Two, e[1]), e[1]), Mul(Mul(Two, e[2]), e[2])),
             Mul(Mul(Four, e[3]), e[3])))

\* the comparison the wrong way round
AboveTolerance(g) == Lt(tolerance, g)

\* if (equivalent_strain_rate < tolerance)
BelowTolerance(g) == Lt(g, tolerance)

\* the minus sign of the exponent lost
RegularizationGrowing(ae, g) == Sub(One, Exp(Mul(ae, g)))

\* 1.0 - std::exp(-adaptive_exponent * equivalent_strain_rate)
Regularization(ae, g) == Sub(One, Exp(Mul(Neg(ae), g)))

\* the yield term not divided by the strain rate
RegularizedViscosityUndivided(dv, ys, fi, ae, g) ==
    Add(Mul(dv, Pow(g, Sub(fi, One))), Mul(Regularization(ae, g), ys))

\* the else branch
RegularizedViscosity(dv, ys, fi, ae, g) ==
    Add(Mul(dv, Pow(g, Sub(fi, One))), Div(Mul(Regularization(ae, g), ys), g))

\* the adaptive exponent left out below the tolerance
ViscosityWithoutExponent(p, g) ==
    IF BelowTolerance(g)
    THEN p.YIELD_SHEAR
    ELSE RegularizedViscosity(p.DYNAMIC_VISCOSITY, p.YIELD_SHEAR, p.FLOW_INDEX,
                              p.ADAPTIVE_EXPONENT, g)

\* the value of effective_dynamic_viscosity after the branch
EffectiveDynamicViscosity(p, g) ==
    IF BelowTolerance(g)
    THEN Mul(p.YIELD_SHEAR, p.ADAPTIVE_EXPONENT)
    ELSE RegularizedViscosity(p.DYNAMIC_VISCOSITY, p.YIELD_SHEAR, p.FLOW_INDEX,
                              p.ADAPTIVE_EXPONENT, g)

\* the trace divided by the dimension of the plane
PlaneTraceDivisor == Two

\* the divisor of strain_trace / 3.0
TraceDivisor == Three

\* r_stress_vector[0 .. 2]
StressVector(mu, e) ==
    LET strain_trace == Add(e[1], e[2])
        third == Div(strain_trace, TraceDivisor)
    IN  <<Mul(Mul(Two, mu), Sub(e[1], third)),
          Mul(Mul(Two, mu), Sub(e[2], third)),
          Mul(Mul(Two, mu), e[3])>>

\* PfemFluidConstitutiveLaw::EffectiveViscousConstitutiveMatrix2D: the partial
\* derivatives of the stress components by the strain components at fixed mu
EffectiveViscousConstitutiveMatrix2D(mu) ==
    LET four_thirds == Mul(mu, Rat(4, 3))
        two_thirds == Mul(mu, Rat(-2, 3))
    IN  <<<<four_thirds, two_thirds, Zero>>,
          <<two_thirds, four_thirds, Zero>>,
          <<Zero, Zero, Mul(Two, mu)>>>>

\* the option not looked at
AlwaysComputesTensor(flags) == TRUE

\* r_options.Is(ConstitutiveLaw::COMPUTE_CONSTITUTIVE_TENSOR)
ComputesTensor(flags) == "COMPUTE_CONSTITUTIVE_TENSOR" \in flags

\* the divisors of the divisions one call executes
DivisorsOf(g) == {TraceDivisor} \cup (IF BelowTolerance(g) THEN {} ELSE {g})

\* the bases of the std::pow calls one call executes
PowBasesOf(g) == IF BelowTolerance(g) THEN {} ELSE {g}

\* the parameters validated at every integration point
ResponseValidates(p) == CheckViolations(p)

\* what the call throws: HerschelBulkley2DLaw::CalculateMaterialResponseCauchy
\* has no KRATOS_ERROR and no KRATOS_CHECK
ResponseErrors(p) == {}

\* one call, on the strain vector and options the caller hands in
CalculateMaterialResponseCauchy ==
    \E e \in StrainVectors, flags \in FlagSets :
        LET g == EquivalentStrainRate(e)
            mu == EffectiveDynamicViscosity(properties, g)
        IN  /\ calls < MaxCalls
            /\ calls' = calls + 1
            /\ strain_vector' = e
            /\ options' = flags
            /\ equivalent_strain_rate' = g
            /\ effective_dynamic_viscosity' = mu
            /\ divisors' = DivisorsOf(g)
            /\ pow_bases' = PowBasesOf(g)
            /\ stress_vector' = StressVector(mu, e)
            /\ constitutive_matrix' =
                   IF ComputesTensor(flags)
                   THEN EffectiveViscousConstitutiveMatrix2D(mu)
                   ELSE constitutive_matrix
            /\ thrown' = ResponseErrors(properties)
            /\ returned' = {}
            /\ last_call' = "response"
            /\ UNCHANGED <<libm, properties, conc_vars>>

(***************************************************************************)
(* HerschelBulkley2DLaw::Check                                             *)
(***************************************************************************)
Check ==
    /\ calls < MaxCalls
    /\ calls' = calls + 1
    /\ thrown' = CheckViolations(properties)
    /\ returned' = IF CheckViolations(properties) = {} THEN {0} ELSE {}
    /\ last_call' = "check"
    /\ UNCHANGED <<libm, properties, strain_vector, options, stress_vector,
                   constitutive_matrix, equivalent_strain_rate,
                   effective_dynamic_viscosity, divisors, pow_bases, conc_vars>>

(***************************************************************************)
(* Concurrent response calls of one law object, one per integration point. *)
(* A call is the sequence of its statements: the caller hands in rValues,  *)
(* the call computes effective_dynamic_viscosity, writes the stress        *)
(* vector, then writes the constitutive matrix if asked to.                *)
(***************************************************************************)
Points == 1 .. NumPoints

\* effective_dynamic_viscosity kept in one place for all calls
SharedSlot(p) == 1

\* where the call of point p keeps effective_dynamic_viscosity: a local
\* variable of the call, HerschelBulkley2DLaw has no data member
Slot(p) == p

\* the strain vectors of the concurrent calls: below the tolerance, and
\* pure shear of rate 2
PointStrains ==
    {<<Rate(1, TRUE), Rate(1, TRUE), Zero>>, <<Zero, Zero, Rate(2, FALSE)>>}

PointProperties == {Props(5, 10, 1, 2, 1), Props(5, 10, 0, 2, 1)}

RECURSIVE CallsEntered(_)
\* the calls the points 1 .. n entered
CallsEntered(n) == IF n = 0 THEN 0 ELSE point_calls[n] + CallsEntered(n - 1)

\* the caller of point p fills its rValues and enters the call
Enter(p) ==
    /\ pc[p] = "idle"
    /\ CallsEntered(NumPoints) < MaxCalls
    /\ \E e \in PointStrains, flags \in FlagSets :
          point_values' = [point_values EXCEPT ![p].strain = e,
                                               ![p].options = flags]
    /\ local_viscosity' = [local_viscosity EXCEPT ![Slot(p)] = Zero]
    /\ pc' = [pc EXCEPT ![p] = "viscosity"]
    /\ point_calls' = [point_calls EXCEPT ![p] = @ + 1]
    /\ UNCHANGED <<libm, properties, seq_vars>>

\* the equivalent strain rate and the branch
ComputeViscosity(p) ==
    /\ pc[p] = "viscosity"
    /\ local_viscosity' =
           [local_viscosity EXCEPT ![Slot(p)] =
               EffectiveDynamicViscosity(properties,
                   EquivalentStrainRate(point_values[p].strain))]
    /\ pc' = [pc EXCEPT ![p] = "stress"]
    /\ UNCHANGED <<libm, properties, seq_vars, point_values, point_calls>>

\* r_stress_vector[0 .. 2] = ...
WriteStress(p) ==
    /\ pc[p] = "stress"
    /\ point_values' =
           [point_values EXCEPT ![p].stress =
               StressVector(local_viscosity[Slot(p)], point_values[p].strain)]
    /\ pc' = [pc EXCEPT ![p] = "tensor"]
    /\ UNCHANGED <<libm, properties, seq_vars, local_viscosity, point_calls>>

\* if (r_options.Is(COMPUTE_CONSTITUTIVE_TENSOR)) ..., and the return
WriteTensor(p) ==
    /\ pc[p] = "tensor"
    /\ point_values' =
           IF ComputesTensor(point_values[p].options)
           THEN [point_values EXCEPT ![p].matrix =
                    EffectiveViscousConstitutiveMatrix2D(local_viscosity[Slot(p)])]
           ELSE point_values
    /\ pc' = [pc EXCEPT ![p] = "idle"]
    /\ UNCHANGED <<libm, properties, seq_vars, local_viscosity, point_calls>>

(***************************************************************************)
(* Specifications.                                                         *)
(***************************************************************************)
ZeroVector == <<Zero, Zero, Zero>>
ZeroMatrix == <<ZeroVector, ZeroVector, ZeroVector>>

\* no concurrent call
InitPoints ==
    /\ pc = [p \in Points |-> "idle"]
    /\ point_values =
           [p \in Points |-> [strain |-> ZeroVector, options |-> {},
                              stress |-> ZeroVector, matrix |-> ZeroMatrix]]
    /\ local_viscosity = [p \in Points |-> Zero]
    /\ point_calls = [p \in Points |-> 0]

InitBuffers ==
    /\ libm \in {"lo", "hi"}
    /\ strain_vector = ZeroVector
    /\ options = {}
    /\ stress_vector = ZeroVector
    /\ constitutive_matrix = ZeroMatrix
    /\ equivalent_strain_rate = Zero
    /\ effective_dynamic_viscosity = Zero
    /\ divisors = {}
    /\ pow_bases = {}
    /\ returned = {}
    /\ thrown = {}
    /\ last_call = "none"
    /\ calls = 0
    /\ InitPoints

Init ==
    /\ properties \in ValidProperties \cup InvalidProperties
    /\ InitBuffers

Next == CalculateMaterialResponseCauchy \/ Check

Spec == Init /\ [][Next]_vars

\* concurrent response calls, one material for all integration points
InitConcurrent ==
    /\ properties \in PointProperties
    /\ InitBuffers

NextConcurrent ==
    \E p \in Points :
        Enter(p) \/ ComputeViscosity(p) \/ WriteStress(p) \/ WriteTensor(p)

SpecConcurrent == InitConcurrent /\ [][NextConcurrent]_vars

\* Check alone, on every sign pattern of the five validated parameters
InitCheck ==
    /\ properties \in SignedProperties
    /\ InitBuffers

NextCheck == Check

SpecCheck == InitCheck /\ [][NextCheck]_vars

(***************************************************************************)
(* Vocabulary of the properties.                                           *)
(***************************************************************************)
\* the validated parameters whose value is negative
Negatives == {v \in Variables : properties[v].s < 0}

\* the position of a parameter in the order the statements of Check have
Position(v) == CHOOSE i \in 1 .. Len(CheckOrder) : CheckOrder[i] = v

AfterResponse == last_call = "response"

AfterCheck == last_call = "check"

\* the four parameters the response reads are all >= 0
NonNegativeParameters ==
    \A v \in Variables \ {"BULK_MODULUS"} : properties[v].s >= 0

\* e_xx + e_yy of the last call
Trace == Add(strain_vector[1], strain_vector[2])

\* 2 e_xx^2 + 2 e_yy^2 + 4 e_xy^2 of the last call
SquaredRate ==
    Add(Add(Mul(Two, Mul(strain_vector[1], strain_vector[1])),
            Mul(Two, Mul(strain_vector[2], strain_vector[2]))),
        Mul(Four, Mul(strain_vector[3], strain_vector[3])))

\* (1e-8)^2
SquaredThreshold == Mul(Rat(1, 10 ^ 8), Rat(1, 10 ^ 8))

\* sqrt(SquaredRate) < 1e-8
RateBelowTolerance == Lt(SquaredRate, SquaredThreshold)

YieldLimit == Mul(properties.YIELD_SHEAR, properties.ADAPTIVE_EXPONENT)

(***************************************************************************)
(* C1.  As claimed: one call of Check reports exactly the set of negative  *)
(* parameters, and returns 0 exactly when there is none.                   *)
(***************************************************************************)
C1_ReportsAllNegatives ==
    AfterCheck =>
        /\ {v.name : v \in thrown} = Negatives
        /\ (returned = {0}) <=> (Negatives = {})

(***************************************************************************)
(* C1, amended.  One call of Check reports at most one violation: none,    *)
(* with status 0, exactly when no parameter is negative, and otherwise the *)
(* negative parameter that comes first in the order DYNAMIC_VISCOSITY,     *)
(* YIELD_SHEAR, FLOW_INDEX, ADAPTIVE_EXPONENT, BULK_MODULUS, with its      *)
(* value; the later checks are not run.                                    *)
(***************************************************************************)
C1_ReportsFirstNegative ==
    AfterCheck =>
        /\ Cardinality(thrown) <= 1
        /\ (thrown = {}) <=> (Negatives = {})
        /\ (returned = {0}) <=> (Negatives = {})
        /\ \A v \in thrown :
              /\ v.name \in Negatives
              /\ v.value = properties[v.name]
              /\ \A w \in Negatives : Position(v.name) <= Position(w)

\* Check has thrown on a parameter set with several negative parameters
C1_Witness ==
    /\ AfterCheck
    /\ Cardinality(Negatives) >= 2
    /\ Cardinality(thrown) = 1

(***************************************************************************)
(* C2.  When exactly one of the five parameters is negative, Check reports *)
(* exactly one violation, which names that parameter and carries its       *)
(* value, and Check does not return 0.                                     *)
(***************************************************************************)
C2_SingleNegativeReported ==
    (AfterCheck /\ Cardinality(Negatives) = 1) =>
        /\ thrown = {[name |-> v, value |-> properties[v]] : v \in Negatives}
        /\ returned # {0}

\* YIELD_SHEAR = -1, the four others valid, and Check has named it
C2_Witness ==
    /\ AfterCheck
    /\ Negatives = {"YIELD_SHEAR"}
    /\ thrown = {[name |-> "YIELD_SHEAR", value |-> Rat(-1, 1)]}
    /\ returned = {}

(***************************************************************************)
(* C3.  A response call writes the three stress components whatever the    *)
(* options are, and writes the constitutive matrix exactly when            *)
(* COMPUTE_CONSTITUTIVE_TENSOR is set: then every entry is the effective   *)
(* viscosity of this call times its coefficient, otherwise the matrix      *)
(* keeps the content it had before the call.                               *)
(***************************************************************************)
TensorCoefficients ==
    <<<<Rat(4, 3), Rat(-2, 3), Zero>>,
      <<Rat(-2, 3), Rat(4, 3), Zero>>,
      <<Zero, Zero, Rat(2, 1)>>>>

C3_TensorOnlyOnRequest ==
    [][(last_call' = "response" /\ calls' = calls + 1) =>
          /\ Eq(stress_vector'[3],
                Mul(Rat(2, 1), Mul(effective_dynamic_viscosity', strain_vector'[3])))
          /\ Eq(Sub(stress_vector'[1], stress_vector'[2]),
                Mul(Rat(2, 1), Mul(effective_dynamic_viscosity',
                                   Sub(strain_vector'[1], strain_vector'[2]))))
          /\ IF "COMPUTE_CONSTITUTIVE_TENSOR" \in options'
             THEN \A i \in 1 .. 3, j \in 1 .. 3 :
                      Eq(constitutive_matrix'[i][j],
                         Mul(TensorCoefficients[i][j], effective_dynamic_viscosity'))
             ELSE constitutive_matrix' = constitutive_matrix]_vars

\* a call without the option has left in place the matrix of an earlier
\* call, which is not the matrix of its own viscosity
C3_Witness ==
    /\ AfterResponse
    /\ options = {}
    /\ constitutive_matrix[3][3].s # 0
    /\ ~Eq(constitutive_matrix[3][3], Mul(Rat(2, 1), effective_dynamic_viscosity))
    /\ stress_vector[3].s # 0

(***************************************************************************)
(* C4.  Whenever the equivalent strain rate is strictly below 1e-8 the     *)
(* effective viscosity is exactly YIELD_SHEAR * ADAPTIVE_EXPONENT,         *)
(* whatever DYNAMIC_VISCOSITY and FLOW_INDEX are; for the strain vector    *)
(* (0,0,0) with YIELD_SHEAR = 10 and ADAPTIVE_EXPONENT = 2 it is 20 and    *)
(* the stress written is (0,0,0).                                          *)
(***************************************************************************)
C4_BelowToleranceViscosity ==
    (AfterResponse /\ RateBelowTolerance) =>
        /\ Eq(effective_dynamic_viscosity, YieldLimit)
        /\ (\A i \in 1 .. 3 : strain_vector[i].s = 0) =>
              /\ \A i \in 1 .. 3 : stress_vector[i].s = 0 /\ IsFinite(stress_vector[i])
              /\ (properties.YIELD_SHEAR = Rat(10, 1)
                     /\ properties.ADAPTIVE_EXPONENT = Rat(2, 1)) =>
                    Eq(effective_dynamic_viscosity, Rat(20, 1))

\* the zero strain vector with consistency index 5, yield shear 10 and
\* adaptive exponent 2
C4_Witness ==
    /\ AfterResponse
    /\ \A i \in 1 .. 3 : strain_vector[i].s = 0
    /\ properties.DYNAMIC_VISCOSITY = Rat(5, 1)
    /\ properties.YIELD_SHEAR = Rat(10, 1)
    /\ properties.ADAPTIVE_EXPONENT = Rat(2, 1)
    /\ Eq(effective_dynamic_viscosity, Rat(20, 1))
    /\ stress_vector = <<Zero, Zero, Zero>>

(***************************************************************************)
(* C5.  After every response call sigma_xx + sigma_yy = 2 mu trace / 3     *)
(* with trace = e_xx + e_yy, which is not zero when mu * trace is not, and *)
(* sigma_xy = 2 mu e_xy.                                                   *)
(***************************************************************************)
C5_TraceDividedByThree ==
    AfterResponse =>
        /\ Eq(Add(stress_vector[1], stress_vector[2]),
              Div(Mul(Rat(2, 1), Mul(effective_dynamic_viscosity, Trace)), Rat(3, 1)))
        /\ Mul(effective_dynamic_viscosity, Trace).s # 0 =>
              Add(stress_vector[1], stress_vector[2]).s # 0
        /\ Eq(stress_vector[3],
              Mul(Rat(2, 1), Mul(effective_dynamic_viscosity, strain_vector[3])))

\* a call with a non-zero trace and a non-zero viscosity
C5_Witness ==
    /\ AfterResponse
    /\ Mul(effective_dynamic_viscosity, Trace).s # 0
    /\ Add(stress_vector[1], stress_vector[2]).s # 0

(***************************************************************************)
(* C6.  With DYNAMIC_VISCOSITY, YIELD_SHEAR, FLOW_INDEX and                *)
(* ADAPTIVE_EXPONENT all >= 0 the effective viscosity of every response    *)
(* call is finite and >= 0, in either branch.                              *)
(***************************************************************************)
C6_ViscosityFiniteNonNegative ==
    (AfterResponse /\ NonNegativeParameters) =>
        /\ IsFinite(effective_dynamic_viscosity)
        /\ effective_dynamic_viscosity.s >= 0

\* the regularized branch at the threshold itself, with a flow index below 1
C6_Witness ==
    /\ AfterResponse
    /\ NonNegativeParameters
    /\ Eq(SquaredRate, SquaredThreshold)
    /\ properties.FLOW_INDEX = Rat(0, 1)
    /\ properties.DYNAMIC_VISCOSITY.s > 0
    /\ properties.YIELD_SHEAR.s > 0
    /\ properties.ADAPTIVE_EXPONENT.s > 0
    /\ effective_dynamic_viscosity.s > 0

(***************************************************************************)
(* C7.  As claimed: for every non-negative parameter set the regularized   *)
(* branch approaches YIELD_SHEAR * ADAPTIVE_EXPONENT as the equivalent     *)
(* strain rate g decreases to the threshold, so that the two branches      *)
(* agree across it.  Stated with a rate: for g <= 1 the regularized        *)
(* viscosity is within (ys * ae^2 + dv) * g of ys * ae.                    *)
(***************************************************************************)
LimitGap == Abs(Sub(effective_dynamic_viscosity, YieldLimit))

LimitRate ==
    Mul(Add(Mul(YieldLimit, properties.ADAPTIVE_EXPONENT),
            properties.DYNAMIC_VISCOSITY),
        equivalent_strain_rate)

InRegularizedBranch ==
    /\ AfterResponse
    /\ NonNegativeParameters
    /\ ~RateBelowTolerance
    /\ Le(SquaredRate, Rat(1, 1))

C7_BranchesAgree == InRegularizedBranch => Le(LimitGap, LimitRate)

(***************************************************************************)
(* C7, amended.  The regularized branch approaches YIELD_SHEAR *           *)
(* ADAPTIVE_EXPONENT only when its power-law term vanishes with the strain *)
(* rate, that is for DYNAMIC_VISCOSITY = 0 or FLOW_INDEX > 1: then, for    *)
(* g <= 1 and FLOW_INDEX >= 2, the viscosity is within                     *)
(* (ys * ae^2 + dv) * g of ys * ae.  With DYNAMIC_VISCOSITY > 0 and        *)
(* FLOW_INDEX <= 1 the term dv * g^(fi - 1) stays at dv or grows: the      *)
(* viscosity exceeds ys * ae by at least dv - ys * ae^2 * g, so the        *)
(* branches disagree at the threshold by about dv or more.                *)
(***************************************************************************)
PowerLawVanishes ==
    \/ properties.DYNAMIC_VISCOSITY.s = 0
    \/ Le(Rat(2, 1), properties.FLOW_INDEX)

C7_BranchesAgreeWithoutPowerLaw ==
    InRegularizedBranch =>
        IF PowerLawVanishes
        THEN Le(LimitGap, LimitRate)
        ELSE Le(Sub(properties.DYNAMIC_VISCOSITY,
                    Mul(Mul(YieldLimit, properties.ADAPTIVE_EXPONENT),
                        equivalent_strain_rate)),
                Sub(effective_dynamic_viscosity, YieldLimit))

\* the regularized branch at the threshold itself, yield term and power-law
\* term both present, flow index 2: the viscosity is not the limit, and is
\* within the rate of it
C7_Witness ==
    /\ InRegularizedBranch
    /\ Eq(SquaredRate, SquaredThreshold)
    /\ properties.DYNAMIC_VISCOSITY.s > 0
    /\ properties.YIELD_SHEAR.s > 0
    /\ properties.ADAPTIVE_EXPONENT.s > 0
    /\ properties.FLOW_INDEX = Rat(2, 1)
    /\ ~Eq(effective_dynamic_viscosity, YieldLimit)
    /\ Le(LimitGap, LimitRate)

(***************************************************************************)
(* C8.  A response call validates nothing and signals no error: whatever   *)
(* the parameters are, negative ones included, it throws nothing and       *)
(* writes a finite stress; a violation is only ever reported by Check,     *)
(* which reports one whenever a parameter is negative.                     *)
(***************************************************************************)
C8_ResponseNeverThrows ==
    /\ AfterResponse =>
          /\ thrown = {}
          /\ \A i \in 1 .. 3 : IsFinite(stress_vector[i])
          /\ Eq(stress_vector[3],
                Mul(Rat(2, 1), Mul(effective_dynamic_viscosity, strain_vector[3])))
    /\ thrown # {} => AfterCheck
    /\ (AfterCheck /\ Negatives # {}) => thrown # {}

\* a response call on a parameter set with a negative parameter
C8_Witness ==
    /\ AfterResponse
    /\ Negatives # {}
    /\ thrown = {}
    /\ stress_vector[3].s # 0

(***************************************************************************)
(* C10.  With non-negative parameters no response call divides by zero or  *)
(* raises zero to a power: the division by the equivalent strain rate and  *)
(* std::pow are executed only with a rate >= 1e-8, and not at all below    *)
(* the tolerance, whatever FLOW_INDEX is.                                  *)
(***************************************************************************)
C10_DivisionsGuarded ==
    (AfterResponse /\ NonNegativeParameters) =>
        /\ \A d \in divisors : IsFinite(d) /\ d.s # 0
        /\ \A d \in (divisors \ {Rat(3, 1)}) \cup pow_bases :
              Le(Rat(1, 10 ^ 8), d)
        /\ RateBelowTolerance => (pow_bases = {} /\ divisors = {Rat(3, 1)})
        /\ IsFinite(effective_dynamic_viscosity)

\* the zero strain vector with a flow index below 1: std::pow would be
\* 0^(-1), and is not executed
C10_Witness ==
    /\ AfterResponse
    /\ NonNegativeParameters
    /\ \A i \in 1 .. 3 : strain_vector[i].s = 0
    /\ properties.FLOW_INDEX = Rat(0, 1)
    /\ properties.DYNAMIC_VISCOSITY.s > 0
    /\ pow_bases = {}
    /\ divisors = {Rat(3, 1)}

(***************************************************************************)
(* C9.  Response calls do not interfere: whatever the interleaving of the  *)
(* calls of the integration points, a call leaves its strain vector and    *)
(* options as they were handed in, a step of one point changes no buffer   *)
(* of another point, a completed call has written the stress (and, when    *)
(* asked, the matrix) that the call alone computes from its inputs, and    *)
(* completed calls with the same inputs have written the same outputs.     *)
(***************************************************************************)
\* the viscosity the call computes from the strain vector e when it runs alone
ViscosityAlone(e) == EffectiveDynamicViscosity(properties, EquivalentStrainRate(e))

Completed(p) == pc[p] = "idle" /\ point_calls[p] > 0

C9_OutputsAsAlone ==
    \A p \in Points :
        Completed(p) =>
            /\ point_values[p].stress =
                   StressVector(ViscosityAlone(point_values[p].strain),
                                point_values[p].strain)
            /\ "COMPUTE_CONSTITUTIVE_TENSOR" \in point_values[p].options =>
                  point_values[p].matrix =
                      EffectiveViscousConstitutiveMatrix2D(
                          ViscosityAlone(point_values[p].strain))
            /\ \A q \in Points :
                  (Completed(q) /\ point_values[q].strain = point_values[p].strain
                      /\ point_values[q].options = point_values[p].options) =>
                      /\ point_values[q].stress = point_values[p].stress
                      /\ "COMPUTE_CONSTITUTIVE_TENSOR" \in point_values[p].options =>
                            point_values[q].matrix = point_values[p].matrix

C9_OwnBuffersOnly ==
    \A p \in Points :
        /\ pc[p] # "idle" =>
              /\ point_values'[p].strain = point_values[p].strain
              /\ point_values'[p].options = point_values[p].options
        /\ (pc[p] # "idle" /\ "COMPUTE_CONSTITUTIVE_TENSOR" \notin point_values[p].options) =>
              point_values'[p].matrix = point_values[p].matrix
        /\ pc'[p] = pc[p] => point_values'[p] = point_values[p]

C9_NoInterference ==
    /\ []C9_OutputsAsAlone
    /\ [][C9_OwnBuffersOnly]_vars /\ [][properties' = properties]_vars

\* two calls in progress at once on different strain vectors, each with its
\* own viscosity and its own stress written
C9_Witness ==
    /\ pc[1] = "tensor"
    /\ pc[2] = "tensor"
    /\ point_values[1].strain # point_values[2].strain
    /\ point_values[1].stress # point_values[2].stress
    /\ ~Eq(local_viscosity[Slot(1)], local_viscosity[Slot(2)])

====
